---------------------------- MODULE Spec2Model ----------------------------
(***************************************************************************)
(* Model of the avroarrow crate of deltasink:                              *)
(*   - schema translation   (src/avroarrow/src/schema.rs, convert_schema)  *)
(*   - builder construction (src/avroarrow/src/schema.rs, create_builder)  *)
(*   - row appending        (src/avroarrow/src/record.rs, append_record)   *)
(* Avro schemas, Avro values, Arrow data types and Arrow builders are      *)
(* trees of records.  The three public functions are operators computed    *)
(* as the code computes them; the actions apply them to a schema drawn     *)
(* from a bounded set and record what the caller observes (Spec).          *)
(*                                                                         *)
(* Model of the sregistry crate:                                           *)
(*   - the HTTP client      (src/sregistry/src/client.rs, get_subject)     *)
(*   - the caching registry (src/sregistry/src/avro.rs, AvroRegistry)      *)
(* One AvroRegistry instance serves a sequence of get calls against a      *)
(* schema registry server whose content is fixed (SpecRegistry).  The     *)
(* same get is also taken one resolve call at a time, the recursion of     *)
(* resolve being a stack of frames (SpecWalk).                             *)
(*   - the schema expander  (src/sregistry/src/avro.rs and                 *)
(*                           src/registry/src/lib.rs: register_schema,     *)
(*                           expand_schema, name_to_str)                   *)
(* A name map is filled by register_schema and schemas are expanded        *)
(* against it (SpecExpand).                                                *)
(***************************************************************************)
EXTENDS Integers, Sequences, FiniteSets, TLC

VARIABLES schema, arrow, builder, call, nCalls, nOk

VARIABLES server, cache, cache_raw, requests, nextRc, last, handed, nGets

VARIABLES name_map, registered, expansion

VARIABLES resolving, frames

avroVars == <<schema, arrow, builder, call, nCalls, nOk>>

registryVars == <<server, cache, cache_raw, requests, nextRc, last, handed, nGets>>

expandVars == <<name_map, registered, expansion>>

walkVars == <<resolving, frames>>

vars == <<avroVars, registryVars, expandVars, walkVars>>

---------------------------------------------------------------------------
(* Bounds of the model.                                                    *)

\* Number of append_record calls made on one builder tree.
MaxAppends == 2

\* Largest number of items of an Array value / entries of a Map value.
MaxItems == 2

\* Number of readings of the host's local offset a single call can observe
\* to differ (later readings repeat the last one).
MaxReads == 2

\* Payloads carried by primitive values.
Payloads == {1, 2}

\* The local UTC offsets the host can report (format!("{:?}", offset)).
TZ == {"+01:00", "+02:00"}

\* FixedSizeBinary width of a Uuid column.
UuidLen == 16

\* Number of AvroRegistry.get calls made on one registry instance.
MaxGets == 3

\* Number of times expand_schema is applied in a row: to a schema, then to
\* its own output.
MaxPasses == 2

\* Number of get calls made on one registry when get is taken one resolve
\* call at a time.
MaxWalks == 2

\* Number of resolve calls that can be running at once (more than the
\* longest chain of references of the servers).
MaxStack == 4

---------------------------------------------------------------------------
(* Avro schemas (apache_avro::Schema).  A node is                          *)
(*   [k: variant, sub: child schemas, names: record field names,           *)
(*    a, b: Decimal precision/scale or Fixed size]                         *)

Sch(k) == [k |-> k, sub |-> <<>>, names |-> <<>>, a |-> 0, b |-> 0]

Decimal(p, s) == [Sch("Decimal") EXCEPT !.a = p, !.b = s]

Fixed(n) == [Sch("Fixed") EXCEPT !.a = n]

Array(t) == [Sch("Array") EXCEPT !.sub = <<t>>]

Map(t) == [Sch("Map") EXCEPT !.sub = <<t>>]

Record(names, subs) == [Sch("Record") EXCEPT !.sub = subs, !.names = names]

Union(variants) == [Sch("Union") EXCEPT !.sub = variants]

\* variants() of a UnionSchema
variants(u) == u.sub

---------------------------------------------------------------------------
(* Arrow data types (arrow::datatypes::DataType) and fields.               *)
(*   [k: variant, a, b: Decimal128 precision/scale or FixedSizeBinary      *)
(*    width, unit: TimeUnit, tz: "None" or Some(offset string),            *)
(*    fields: child fields, sorted: Map keys-sorted flag]                  *)

DT(k) ==
    [k |-> k, a |-> 0, b |-> 0, unit |-> "", tz |-> "None",
     fields |-> <<>>, sorted |-> FALSE]

Field(name, dt, nullable) == [name |-> name, dt |-> dt, nullable |-> nullable]

Timestamp(unit, tz) == [DT("Timestamp") EXCEPT !.unit = unit, !.tz = tz]

Time32(unit) == [DT("Time32") EXCEPT !.unit = unit]

Time64(unit) == [DT("Time64") EXCEPT !.unit = unit]

Decimal128(p, s) == [DT("Decimal128") EXCEPT !.a = p, !.b = s]

FixedSizeBinary(n) == [DT("FixedSizeBinary") EXCEPT !.a = n]

List(item) == [DT("List") EXCEPT !.fields = <<item>>]

Struct(fields) == [DT("Struct") EXCEPT !.fields = fields]

MapType(entries, sorted) ==
    [DT("Map") EXCEPT !.fields = <<entries>>, !.sorted = sorted]

NoType == DT("None")

---------------------------------------------------------------------------
(* The host clock.  A call observes the sequence clk of local offsets:     *)
(* every evaluation of tz_offset!() reads the head and time moves on.      *)

Clocks == [1..MaxReads -> TZ]

\* tz_offset!(): Local::now().offset(), formatted
tz_offset(clk) == clk[1]

Tick(clk) == IF Len(clk) > 1 THEN Tail(clk) ELSE clk

---------------------------------------------------------------------------
(* Schema translation: schema.rs                                           *)

is_nullable_last(src) ==
    /\ src.k = "Union"
    /\ Len(variants(src)) > 0
    /\ variants(src)[Len(variants(src))].k = "Null"

is_nullable(src) ==
    /\ src.k = "Union"
    /\ \E i \in 1..Len(variants(src)) : variants(src)[i].k = "Null"

is_optional(src) ==
    /\ Len(variants(src)) = 2
    /\ variants(src)[1].k = "Null"

TimeUnitOf(k) ==
    CASE k \in {"TimestampMillis", "LocalTimestampMillis", "TimeMillis"} -> "Millisecond"
      [] k \in {"TimestampMicros", "LocalTimestampMicros", "TimeMicros"} -> "Microsecond"
      [] OTHER -> "Nanosecond"

\* The arms of convert_to_datatype that neither recurse nor read the clock.
PlainType(src) ==
    CASE src.k = "Null" -> DT("Null")
      [] src.k = "Boolean" -> DT("Boolean")
      [] src.k = "Int" -> DT("Int32")
      [] src.k = "Long" -> DT("Int64")
      [] src.k = "Float" -> DT("Float32")
      [] src.k = "Double" -> DT("Float64")
      [] src.k = "Bytes" -> DT("Binary")
      [] src.k = "String" -> DT("Utf8")
      [] src.k = "Uuid" -> FixedSizeBinary(UuidLen)
      [] src.k = "TimeMillis" -> Time32(TimeUnitOf(src.k))
      [] src.k = "TimeMicros" -> Time64(TimeUnitOf(src.k))
      [] src.k \in {"TimestampMillis", "TimestampMicros", "TimestampNanos"} ->
            Timestamp(TimeUnitOf(src.k), "None")
      [] src.k = "Date" -> DT("Date32")
      [] src.k = "Enum" -> DT("Utf8")
      [] src.k = "Decimal" -> Decimal128(src.a, src.b)
      [] src.k = "Fixed" -> FixedSizeBinary(src.a)
      [] src.k = "BigDecimal" -> DT("Binary")

PlainKinds ==
    {"Null", "Boolean", "Int", "Long", "Float", "Double", "Bytes", "String",
     "Uuid", "TimeMillis", "TimeMicros", "TimestampMillis", "TimestampMicros",
     "TimestampNanos", "Date", "Enum", "Decimal", "Fixed", "BigDecimal"}

LocalKinds ==
    {"LocalTimestampMillis", "LocalTimestampMicros", "LocalTimestampNanos"}

TypeOk(dt, clk) == [res |-> "ok", dt |-> dt, clk |-> clk]

TypeErr(clk) == [res |-> "err", dt |-> NoType, clk |-> clk]

RECURSIVE convert_to_datatype(_, _)
RECURSIVE convert_fields(_, _, _, _)

\* The field iterator of the Record arms: fields in order, stopping at the
\* first error (collect into Result).
convert_fields(rec, i, clk, acc) ==
    IF i > Len(rec.sub)
    THEN [res |-> "ok", fields |-> acc, clk |-> clk]
    ELSE LET r == convert_to_datatype(rec.sub[i], clk) IN
         IF r.res # "ok"
         THEN [res |-> "err", fields |-> <<>>, clk |-> r.clk]
         ELSE convert_fields(rec, i + 1, r.clk,
                  Append(acc, Field(rec.names[i], r.dt, is_nullable(rec.sub[i]))))

convert_to_datatype(src, clk) ==
    CASE src.k \in PlainKinds -> TypeOk(PlainType(src), clk)
      [] src.k \in LocalKinds ->
            TypeOk(Timestamp(TimeUnitOf(src.k), tz_offset(clk)), Tick(clk))
      [] src.k = "Array" ->
            LET r == convert_to_datatype(src.sub[1], clk) IN
            IF r.res # "ok" THEN TypeErr(r.clk)
            ELSE TypeOk(List(Field("item", r.dt, is_nullable(src.sub[1]))), r.clk)
      [] src.k = "Map" ->
            LET r == convert_to_datatype(src.sub[1], clk) IN
            IF r.res # "ok" THEN TypeErr(r.clk)
            ELSE TypeOk(
                   MapType(
                     Field("entries",
                           Struct(<<Field("keys", DT("Utf8"), FALSE),
                                    Field("values", r.dt, is_nullable(src.sub[1]))>>),
                           FALSE),
                     FALSE),
                   r.clk)
      [] src.k = "Union" ->
            IF is_optional(src)
            THEN convert_to_datatype(variants(src)[2], clk)
            ELSE TypeErr(clk)
      [] src.k = "Record" ->
            LET r == convert_fields(src, 1, clk, <<>>) IN
            IF r.res # "ok" THEN TypeErr(r.clk)
            ELSE TypeOk(Struct(r.fields), r.clk)
      [] OTHER -> TypeErr(clk)

\* convert_schema: Ok(Schema(fields)), Err, or panic for a non-record root.
convert_schema(src, clk) ==
    IF src.k = "Record"
    THEN LET r == convert_fields(src, 1, clk, <<>>) IN
         [res |-> r.res, fields |-> r.fields]
    ELSE [res |-> "panic", fields |-> <<>>]

---------------------------------------------------------------------------
(* Builders (arrow::array::builder).  A node of the builder tree is        *)
(*   [k: concrete builder type, dt: the data type the builder was given,   *)
(*    cap: capacity it was allocated with, rows: the slots appended so far *)
(*    (valid flag and payload; for List and Map the payload is the end     *)
(*    offset of the slot), children: child builders]                       *)
(* len(builder) is Len(rows).  The builders grow on demand: cap (and the   *)
(* 2048 bytes of value storage of the String and Binary builders) only     *)
(* sizes the first allocation.                                             *)

Builder(k, dt, cap, children) ==
    [k |-> k, dt |-> dt, cap |-> cap, rows |-> <<>>, children |-> children]

NoBuilder == Builder("None", NoType, 0, <<>>)

Slot(valid, p) == [valid |-> valid, p |-> p]

BLen(b) == Len(b.rows)

\* Concrete builder type allocated by the leaf arms of create_builder.
PrimitiveBuilderOf(k) ==
    CASE k = "Null" -> "NullBuilder"
      [] k = "Boolean" -> "BooleanBuilder"
      [] k = "Int" -> "Int32Builder"
      [] k = "Long" -> "Int64Builder"
      [] k = "Float" -> "Float32Builder"
      [] k = "Double" -> "Float64Builder"
      [] k = "Decimal" -> "Decimal128Builder"
      [] k = "Date" -> "Date32Builder"
      [] k = "TimeMillis" -> "Time32MillisecondBuilder"
      [] k = "TimeMicros" -> "Time64MicrosecondBuilder"
      [] k \in {"TimestampMillis", "LocalTimestampMillis"} -> "TimestampMillisecondBuilder"
      [] k \in {"TimestampMicros", "LocalTimestampMicros"} -> "TimestampMicrosecondBuilder"
      [] k \in {"TimestampNanos", "LocalTimestampNanos"} -> "TimestampNanosecondBuilder"
      [] k = "Bytes" -> "BinaryBuilder"
      [] k \in {"Fixed", "Uuid"} -> "FixedSizeBinaryBuilder"
      [] k \in {"String", "Enum"} -> "StringBuilder"

\* Schemas for which create_builder allocates a leaf builder whose data type
\* does not depend on the clock.
PlainBuilderKinds ==
    {"Null", "Boolean", "Int", "Long", "Float", "Double", "Decimal", "Date",
     "TimeMillis", "TimeMicros", "TimestampMillis", "TimestampMicros",
     "TimestampNanos", "Bytes", "Fixed", "String", "Enum", "Uuid"}

arrow_decimal_type(s) == Decimal128(s.a, s.b)

decimal_builder(s, cap) ==
    Builder("Decimal128Builder", arrow_decimal_type(s), cap, <<>>)

arrow_timestamp_type(time_unit, clk) == Timestamp(time_unit, tz_offset(clk))

\* local_timestamp_ms_builder / _mc_builder / _ns_builder
local_timestamp_builder(s, cap, clk) ==
    Builder(PrimitiveBuilderOf(s.k), arrow_timestamp_type(TimeUnitOf(s.k), clk),
            cap, <<>>)

BuildOk(b, clk) == [res |-> "ok", b |-> b, clk |-> clk]

BuildErr(clk) == [res |-> "err", b |-> NoBuilder, clk |-> clk]

RECURSIVE create_builder(_, _, _)
RECURSIVE struct_fields(_, _, _, _, _, _)

\* The loop of struct_builder: for each field, convert_to_datatype(f)?,
\* push the Field, create_builder(f)?, push the builder.
struct_fields(rec, i, cap, clk, fields, builders) ==
    IF i > Len(rec.sub)
    THEN [res |-> "ok", fields |-> fields, builders |-> builders, clk |-> clk]
    ELSE LET t == convert_to_datatype(rec.sub[i], clk) IN
         IF t.res # "ok"
         THEN [res |-> "err", fields |-> <<>>, builders |-> <<>>, clk |-> t.clk]
         ELSE LET c == create_builder(rec.sub[i], cap, t.clk) IN
              IF c.res # "ok"
              THEN [res |-> "err", fields |-> <<>>, builders |-> <<>>, clk |-> c.clk]
              ELSE struct_fields(rec, i + 1, cap, c.clk,
                       Append(fields, Field(rec.names[i], t.dt, is_nullable(rec.sub[i]))),
                       Append(builders, c.b))

struct_builder(s, cap, clk) ==
    LET r == struct_fields(s, 1, cap, clk, <<>>, <<>>) IN
    IF r.res # "ok" THEN BuildErr(r.clk)
    ELSE BuildOk(Builder("StructBuilder", Struct(r.fields), cap, r.builders), r.clk)

array_builder(s, cap, clk) ==
    LET c == create_builder(s.sub[1], cap, clk) IN
    IF c.res # "ok" THEN BuildErr(c.clk)
    ELSE BuildOk(Builder("ListBuilder", NoType, cap, <<c.b>>), c.clk)

\* MapBuilder::new(None, keys_builder, values_builder): children are
\* <<keys, values>>; the map itself gets no capacity.
map_builder(s, cap, clk) ==
    LET keys_builder == Builder("StringBuilder", DT("Utf8"), cap, <<>>)
        c == create_builder(s.sub[1], cap, clk)
    IN  IF c.res # "ok" THEN BuildErr(c.clk)
        ELSE BuildOk(Builder("MapBuilder", NoType, 0, <<keys_builder, c.b>>), c.clk)

create_builder(avro, cap, clk) ==
    CASE avro.k = "Decimal" -> BuildOk(decimal_builder(avro, cap), clk)
      [] avro.k = "Null" ->
            \* NullBuilder::new() takes no capacity
            BuildOk(Builder(PrimitiveBuilderOf(avro.k), PlainType(avro), 0, <<>>), clk)
      [] avro.k \in PlainBuilderKinds \ {"Decimal", "Null"} ->
            BuildOk(Builder(PrimitiveBuilderOf(avro.k), PlainType(avro), cap, <<>>), clk)
      [] avro.k \in LocalKinds ->
            BuildOk(local_timestamp_builder(avro, cap, clk), Tick(clk))
      [] avro.k = "Array" -> array_builder(avro, cap, clk)
      [] avro.k = "Map" -> map_builder(avro, cap, clk)
      [] avro.k = "Record" -> struct_builder(avro, cap, clk)
      [] avro.k = "Union" ->
            IF is_optional(avro)
            THEN create_builder(variants(avro)[2], cap, clk)
            ELSE BuildErr(clk)
      [] OTHER -> BuildErr(clk)

\* The data type of the array that finish() yields.  A ListBuilder built by
\* with_capacity and a MapBuilder built with field names None carry no
\* field of their own: the item / values field is declared nullable.
RECURSIVE finish_type(_)
finish_type(b) ==
    CASE b.k = "ListBuilder" ->
            List(Field("item", finish_type(b.children[1]), TRUE))
      [] b.k = "MapBuilder" ->
            MapType(
              Field("entries",
                    Struct(<<Field("keys", finish_type(b.children[1]), FALSE),
                             Field("values", finish_type(b.children[2]), TRUE)>>),
                    FALSE),
              FALSE)
      [] OTHER -> b.dt

---------------------------------------------------------------------------
(* Decoded Avro values (apache_avro::types::Value).  A node is             *)
(*   [k: variant, p: payload, idx: Union discriminator / Enum ordinal /    *)
(*    Fixed length tag, n: number of bytes of a Fixed, big: the Decimal's  *)
(*    integer does not fit an i128, keys: Map keys in iteration order,     *)
(*    sub: Union inner value, Array items, Map values, Record fields]      *)

Val(k, p) ==
    [k |-> k, p |-> p, idx |-> 0, n |-> 0, big |-> FALSE,
     keys |-> <<>>, sub |-> <<>>]

VNull == Val("Null", 0)

VUnion(i, v) == [Val("Union", 0) EXCEPT !.idx = i, !.sub = <<v>>]

VArray(items) == [Val("Array", 0) EXCEPT !.sub = items]

VMap(keys, vals) == [Val("Map", 0) EXCEPT !.keys = keys, !.sub = vals]

VRecord(fields) == [Val("Record", 0) EXCEPT !.sub = fields]

VFixed(tag, n, p) == [Val("Fixed", p) EXCEPT !.idx = tag, !.n = n]

VEnum(ordinal, symbol) == [Val("Enum", symbol) EXCEPT !.idx = ordinal]

VDecimal(p, big) == [Val("Decimal", p) EXCEPT !.big = big]

---------------------------------------------------------------------------
(* Row appending: record.rs                                                *)

AppendSlot(b, slot) == [b EXCEPT !.rows = Append(@, slot)]

\* PrimitiveBuilder / GenericByteBuilder ::append_null, ::append_value
append_null(b) == AppendSlot(b, Slot(FALSE, 0))

\* A builder that would put each new value in front of the earlier ones.
append_value_front(b, p) == [b EXCEPT !.rows = <<Slot(TRUE, p)>> \o @]

append_value(b, p) == AppendSlot(b, Slot(TRUE, p))

\* ListBuilder::append(is_valid): closes the slot at the current length of
\* the values builder.
list_append(b, is_valid) == AppendSlot(b, Slot(is_valid, BLen(b.children[1])))

\* A struct builder that would push two validity slots per append.
struct_append_twice(b, is_valid) ==
    AppendSlot(AppendSlot(b, Slot(is_valid, 0)), Slot(is_valid, 0))

\* StructBuilder::append(is_valid) and ::append_null() = append(false):
\* only the struct's own validity slot is pushed; the child builders are
\* the caller's to advance.
struct_append(b, is_valid) == AppendSlot(b, Slot(is_valid, 0))

Res(res, b) == [res |-> res, b |-> b]

\* unexpected_type!: panic!("expected {} but got {:?}")
unexpected_type(b) == Res("panic", b)

\* A map builder that would close every slot at offset 0.
map_append_at_zero(b, is_valid) == Res("ok", AppendSlot(b, Slot(is_valid, 0)))

\* MapBuilder::append(is_valid): Err when keys and values differ in length.
map_append(b, is_valid) ==
    IF BLen(b.children[1]) # BLen(b.children[2])
    THEN Res("err", b)
    ELSE Res("ok", AppendSlot(b, Slot(is_valid, BLen(b.children[1]))))

\* A fixed-size builder that would take a slice of any length.
fixed_append_value_unchecked(b, n, p) == Res("ok", append_value(b, p))

\* FixedSizeBinaryBuilder::append_value(bytes): Err when the number of
\* bytes is not the builder's width.
fixed_append_value(b, n, p) ==
    IF n # b.dt.a THEN Res("err", b) ELSE Res("ok", append_value(b, p))

\* A conversion that would keep a payload that does not fit.
from_decimal128_keep(v) == v.p

\* from_decimal128: to_i128() of the payload, 0 when it does not fit.
from_decimal128(v) == IF v.big THEN 0 ELSE v.p

\* Schemas dispatched through convert! / convert_ex!.
ConvertKinds ==
    {"Boolean", "Int", "Long", "Float", "Double", "Decimal", "Date",
     "TimeMillis", "TimeMicros", "TimestampMillis", "TimestampMicros",
     "TimestampNanos", "LocalTimestampMillis", "LocalTimestampMicros",
     "LocalTimestampNanos", "String", "Enum", "Bytes"}

\* convert_ex!: Null -> append_null, the schema's own variant ->
\* append_value, anything else -> unexpected_type!.
convert_ex(b, s, v) ==
    IF v.k = "Null" THEN Res("ok", append_null(b))
    ELSE IF v.k = s.k
         THEN Res("ok", append_value(b, IF s.k = "Decimal" THEN from_decimal128(v) ELSE v.p))
         ELSE unexpected_type(b)

RECURSIVE append_record(_, _, _)
RECURSIVE append_items(_, _, _, _)
RECURSIVE append_entries(_, _, _, _)
RECURSIVE append_fields(_, _, _, _)

\* Array arm, the loop over the items: the values builder after the items
\* from i on, or the first failure.
append_items(values, item_schema, items, i) ==
    IF i > Len(items) THEN Res("ok", values)
    ELSE LET r == append_record(values, item_schema, items[i]) IN
         IF r.res # "ok" THEN r
         ELSE append_items(r.b, item_schema, items, i + 1)

\* Map arm, the loop over the entries: the key is appended to the keys
\* builder before the value is appended to the values builder.
append_entries(b, value_schema, m, i) ==
    IF i > Len(m.sub) THEN Res("ok", b)
    ELSE LET keyed == [b EXCEPT !.children[1] = append_value(@, m.keys[i])]
             r == append_record(keyed.children[2], value_schema, m.sub[i])
             after == [keyed EXCEPT !.children[2] = r.b]
         IN  IF r.res # "ok" THEN Res(r.res, after)
             ELSE append_entries(after, value_schema, m, i + 1)

\* Each of the first n children without its last slot.
DropLast(b, n) ==
    [b EXCEPT !.children =
        [k \in 1..Len(@) |->
            IF k <= n THEN [@[k] EXCEPT !.rows = SubSeq(@, 1, Len(@) - 1)] ELSE @[k]]]

\* A field loop that would undo the appends of the earlier fields when a
\* field fails.
RECURSIVE append_fields_rollback(_, _, _, _)
append_fields_rollback(b, s, fields, i) ==
    IF i > Len(fields) THEN Res("ok", b)
    ELSE IF i > Len(s.sub) \/ i > Len(b.children) THEN Res("panic", b)
    ELSE LET r == append_record(b.children[i], s.sub[i], fields[i])
             after == [b EXCEPT !.children[i] = r.b]
         IN  IF r.res # "ok" THEN Res(r.res, DropLast(b, i - 1))
             ELSE append_fields_rollback(after, s, fields, i + 1)

\* Record arm, the loop over the value's fields: inner.fields[i] and
\* struct_field(typed, i) index out of bounds (panic) when the value has
\* more fields than the schema.
append_fields(b, s, fields, i) ==
    IF i > Len(fields) THEN Res("ok", b)
    ELSE IF i > Len(s.sub) \/ i > Len(b.children) THEN Res("panic", b)
    ELSE LET r == append_record(b.children[i], s.sub[i], fields[i])
             after == [b EXCEPT !.children[i] = r.b]
         IN  IF r.res # "ok" THEN Res(r.res, after)
             ELSE append_fields(after, s, fields, i + 1)

append_record(b, s, v) ==
    CASE s.k \in ConvertKinds -> convert_ex(b, s, v)
      [] s.k = "Uuid" ->
            IF v.k = "Null" THEN Res("ok", append_null(b))
            ELSE IF v.k = "Uuid" THEN fixed_append_value(b, UuidLen, v.p)
            ELSE unexpected_type(b)
      [] s.k = "Fixed" ->
            IF v.k = "Null" THEN Res("ok", append_null(b))
            ELSE IF v.k = "Fixed" THEN fixed_append_value(b, v.n, v.p)
            ELSE unexpected_type(b)
      [] s.k = "Array" ->
            IF v.k = "Null" THEN Res("ok", list_append(b, FALSE))
            ELSE IF v.k = "Array"
            THEN LET r == append_items(b.children[1], s.sub[1], v.sub, 1)
                     after == [b EXCEPT !.children[1] = r.b]
                 IN  IF r.res # "ok" THEN Res(r.res, after)
                     ELSE Res("ok", list_append(after, TRUE))
            ELSE unexpected_type(b)
      [] s.k = "Map" ->
            IF v.k = "Null" THEN map_append(b, FALSE)
            ELSE IF v.k = "Map"
            THEN LET r == append_entries(b, s.sub[1], v, 1) IN
                 IF r.res # "ok" THEN r ELSE map_append(r.b, TRUE)
            ELSE unexpected_type(b)
      [] s.k = "Record" ->
            IF v.k = "Null" THEN Res("ok", struct_append(b, FALSE))
            ELSE IF v.k = "Record"
            THEN LET r == append_fields(b, s, v.sub, 1) IN
                 IF r.res # "ok" THEN r ELSE Res("ok", struct_append(r.b, TRUE))
            ELSE unexpected_type(b)
      [] s.k = "Union" ->
            \* &inner.variants()[1] is evaluated before the value is matched
            IF Len(variants(s)) < 2 THEN Res("panic", b)
            ELSE IF v.k = "Union" THEN append_record(b, variants(s)[2], v.sub[1])
            ELSE unexpected_type(b)
      [] OTHER -> Res("err", b)

---------------------------------------------------------------------------
(* The schemas and values the model is run on.                             *)

NullS == Sch("Null")

IntS == Sch("Int")

StringS == Sch("String")

InnerRec == Record(<<"g">>, <<IntS>>)

Leaves ==
    {Sch(k) : k \in (PlainKinds \cup LocalKinds \cup {"Duration", "Ref"})
                      \ {"Decimal", "Fixed"}}
    \cup {Decimal(10, 4), Fixed(2)}

\* The union shapes around a type t (other than Null and Boolean: a union
\* holds no two variants of one unnamed kind).
UnionShapes(t) ==
    {Union(<<NullS, t>>), Union(<<t, NullS>>), Union(<<t>>),
     Union(<<NullS, t, Sch("Boolean")>>), Union(<<Sch("Boolean"), t>>)}

Elems ==
    {IntS, NullS, Sch("LocalTimestampMillis"), InnerRec,
     Union(<<NullS, IntS>>), Union(<<IntS, NullS>>),
     Union(<<NullS, InnerRec>>)}

Containers == {Array(t) : t \in Elems} \cup {Map(t) : t \in Elems}

FieldSchemas ==
    Elems \cup UnionShapes(StringS)
    \cup {Array(IntS), Array(Union(<<NullS, IntS>>)), Map(IntS),
          Sch("Ref"), Sch("BigDecimal"), Sch("Duration"), Decimal(10, 4)}

Records ==
    {Record(<<"f">>, <<t>>) : t \in FieldSchemas}
    \cup {Record(<<"f", "h">>, <<Sch("LocalTimestampMillis"), Sch("LocalTimestampMicros")>>),
          Record(<<"f", "h">>, <<Union(<<NullS, InnerRec>>), StringS>>),
          Record(<<"f", "h">>, <<IntS, Union(<<NullS, StringS>>)>>),
          Record(<<"f", "h">>, <<Array(IntS), Union(<<NullS, StringS>>)>>),
          Record(<<"f", "h">>, <<IntS, NullS>>),
          Record(<<"f", "h">>, <<Record(<<"g">>, <<Union(<<IntS, NullS>>)>>), IntS>>)}

Schemas ==
    Leaves \cup Containers \cup Records
    \cup UnionShapes(IntS) \cup {Union(<<NullS, Sch("LocalTimestampMicros")>>)}

\* Capacity hints given to create_builder.
Caps == {0, 1}

\* Payloads of the values inside Array and Map values.
ItemPayloads == {1}

\* The sequences over S of length at most n.
SeqsUpTo(S, n) == UNION {[1..m -> S] : m \in 0..n}

\* Does value v conform to schema s (the decoder's contract)?
RECURSIVE Conforms(_, _)
Conforms(s, v) ==
    CASE s.k = "Array" ->
            v.k = "Array" /\ \A i \in 1..Len(v.sub) : Conforms(s.sub[1], v.sub[i])
      [] s.k = "Map" ->
            /\ v.k = "Map"
            /\ Len(v.keys) = Len(v.sub)
            /\ \A i \in 1..Len(v.sub) : Conforms(s.sub[1], v.sub[i])
      [] s.k = "Record" ->
            /\ v.k = "Record"
            /\ Len(v.sub) = Len(s.sub)
            /\ \A i \in 1..Len(v.sub) : Conforms(s.sub[i], v.sub[i])
      [] s.k = "Union" ->
            /\ v.k = "Union"
            /\ v.idx + 1 \in 1..Len(variants(s))
            /\ Conforms(variants(s)[v.idx + 1], v.sub[1])
      [] s.k = "Fixed" -> v.k = "Fixed" /\ v.n = s.a /\ v.idx = s.a
      [] s.k = "Ref" -> FALSE
      [] OTHER -> v.k = s.k

\* The conforming values of s with payloads from ps.
RECURSIVE ConformingValues(_, _)
RECURSIVE FieldTuples(_, _, _)

FieldTuples(s, i, ps) ==
    IF i > Len(s.sub) THEN {<<>>}
    ELSE {<<v>> \o rest : v \in ConformingValues(s.sub[i], ps),
                          rest \in FieldTuples(s, i + 1, ps)}

ConformingValues(s, ps) ==
    CASE s.k = "Null" -> {VNull}
      [] s.k = "Array" ->
            {VArray(items) :
                items \in SeqsUpTo(ConformingValues(s.sub[1], ItemPayloads), MaxItems)}
      [] s.k = "Map" ->
            {VMap([i \in 1..Len(vals) |-> i], vals) :
                vals \in SeqsUpTo(ConformingValues(s.sub[1], ItemPayloads), MaxItems)}
      [] s.k = "Record" -> {VRecord(fs) : fs \in FieldTuples(s, 1, ps)}
      [] s.k = "Union" ->
            UNION {{VUnion(i - 1, v) : v \in ConformingValues(variants(s)[i], ps)} :
                       i \in 1..Len(variants(s))}
      [] s.k = "Fixed" -> {VFixed(s.a, s.a, p) : p \in ps}
      [] s.k = "Enum" -> {VEnum(p - 1, p) : p \in ps}
      [] s.k = "Decimal" -> {VDecimal(p, FALSE) : p \in ps} \cup {VDecimal(1, TRUE)}
      [] s.k = "Ref" -> {}
      [] OTHER -> {Val(s.k, p) : p \in ps}

\* A value of a variant the schema does not expect.
Mismatch(s) == IF s.k = "String" THEN Val("Int", 1) ELSE Val("String", 1)

\* Values that break the decoder's contract for s: a bare Null, a value of
\* another variant, a record with a field too few or too many, a Fixed of
\* the wrong length, a Fixed of the right length under a wrong length tag.
NonConforming(s) ==
    ({VNull, Mismatch(s)} \ ConformingValues(s, Payloads))
    \cup (IF s.k = "Record" /\ FieldTuples(s, 1, ItemPayloads) # {}
          THEN LET fs == CHOOSE x \in FieldTuples(s, 1, ItemPayloads) : TRUE IN
               {VRecord(SubSeq(fs, 1, Len(fs) - 1)), VRecord(Append(fs, Val("Int", 1)))}
          ELSE {})
    \cup (IF s.k = "Fixed"
          THEN {VFixed(s.a, s.a + 1, 1), VFixed(s.a + 1, s.a, 1)}
          ELSE {})

ValuesFor(s) == ConformingValues(s, Payloads) \cup NonConforming(s)

\* The schemas a caller passes to append_record with a builder made for
\* bs: bs itself and, for a primitive bs, unions around it whose variant 1
\* is bs or is missing or Null (the builder is then never cast to another
\* builder's type).
AppendSchemas(bs) ==
    {bs} \cup (IF bs = IntS
               THEN {Union(<<bs>>), Union(<<bs, NullS>>),
                     Union(<<NullS, bs, StringS>>), Union(<<StringS, bs>>)}
               ELSE {})

---------------------------------------------------------------------------
(* The schema registry server and its client: client.rs                    *)
(* The server maps <<subject, version>> to the body it answers with 200:   *)
(* the raw schema text and the references.  A raw schema text is the JSON  *)
(* definition of a record: its name and, per field, the field's name and   *)
(* the name of its type (a primitive or another record).                   *)

RawRecord(name, fields) == [name |-> name, fields |-> fields]

\* Reference {name, subject, version}
Reference(name, subject, version) ==
    [name |-> name, subject |-> subject, version |-> version]

\* Subject {schema, references} (id and schema_type are never read)
Subject(schema_text, references) ==
    [schema |-> schema_text, references |-> references]

\* sr_schema_url: the subject and version the GET names
sr_schema_url(subject, version) == <<subject \o "-value", version>>

\* No request fails.
NoFailure == <<"", 0>>

\* Client::get_subject: Ok(Subject) on status 200; Err when the request
\* fails in transport, the server does not have the version, or answers
\* with another status (here: the request for the URL `fail`).
get_subject(srv, fail, subject, version) ==
    LET url == sr_schema_url(subject, version) IN
    IF url \in DOMAIN srv /\ url # fail
    THEN [res |-> "ok", response |-> srv[url]]
    ELSE [res |-> "err", response |-> Subject(RawRecord("", <<>>), <<>>)]

\* A resolver that would use the subject string as it comes.
strip_suffix_never(s, suffix) == s

\* str::strip_suffix(suffix), falling back to the string itself
strip_suffix(s, suffix) ==
    IF /\ Len(s) >= Len(suffix)
       /\ SubSeq(s, Len(s) - Len(suffix) + 1, Len(s)) = suffix
    THEN SubSeq(s, 1, Len(s) - Len(suffix))
    ELSE s

---------------------------------------------------------------------------
(* The caching registry: avro.rs                                           *)
(*   cache     : (subject, version) -> Rc<Schema>, as [rc, schema] where   *)
(*               rc identifies the allocation                              *)
(*   cache_raw : (subject, version) -> raw schema text                     *)
(* (cache2 is never read or written.)                                      *)

\* HashMap::new()
EmptyMap == [k \in {} |-> 0]

\* HashMap::insert
insert(map, key, value) == (key :> value) @@ map

\* A walk that would treat no key as visited.
seen_get_none(seen, key) == {}

\* seen.get(&key): the Option as a set of at most one status
seen_get(seen, key) == IF key \in DOMAIN seen THEN {seen[key]} ELSE {}

\* The walk's working state: the raw cache, the batch collected so far, the
\* visit status of each key, the HTTP GETs issued so far.
Walk(raw, schemas, seen, gets) ==
    [cache_raw |-> raw, schemas |-> schemas, seen |-> seen, gets |-> gets]

Walked(res, st) == [res |-> res, st |-> st]

RECURSIVE resolve(_, _, _, _, _)
RECURSIVE resolve_refs(_, _, _, _, _)

\* The loop over response.references: strip "-value", resolve, `?`.
resolve_refs(srv, fail, refs, i, st) ==
    IF i > Len(refs) THEN Walked("ok", st)
    ELSE LET name == strip_suffix(refs[i].subject, "-value")
             r == resolve(srv, fail, name, refs[i].version, st)
         IN  IF r.res # "ok" THEN r
             ELSE resolve_refs(srv, fail, refs, i + 1, r.st)

\* AvroRegistry::resolve
resolve(srv, fail, subject, version, st) ==
    LET key == <<subject, version>>
        status == seen_get(st.seen, key)
    IN  IF status # {}
        THEN IF status = {0}
             THEN Walked("ResolutionFailed", st)    \* err_cycle!
             ELSE Walked("ok", st)
        ELSE LET s0 == [st EXCEPT !.seen = insert(@, key, 0)] IN
             IF key \in DOMAIN s0.cache_raw
             THEN Walked("ok",
                     [s0 EXCEPT !.schemas = Append(@, <<subject, version, s0.cache_raw[key]>>),
                                !.seen = insert(@, key, 1)])
             ELSE LET got == get_subject(srv, fail, subject, version)
                      s1 == [s0 EXCEPT !.gets = Append(@, key)]
                  IN  IF got.res # "ok"
                      THEN Walked("ClientError", s1)
                      ELSE LET s2 == [s1 EXCEPT
                                        !.cache_raw = insert(@, key, got.response.schema),
                                        !.schemas = Append(@, <<subject, version, got.response.schema>>)]
                               r == resolve_refs(srv, fail, got.response.references, 1, s2)
                           IN  IF r.res # "ok" THEN r
                               ELSE Walked("ok", [r.st EXCEPT !.seen = insert(@, key, 1)])

\* Schema::Ref {name}
Ref(name) == [Sch("Ref") EXCEPT !.names = <<name>>]

\* The primitive type names of the schema language.
PrimitiveTypes == {"long", "float", "string"}

PrimitiveSchema(type) ==
    CASE type = "long" -> Sch("Long")
      [] type = "float" -> Sch("Float")
      [] type = "string" -> Sch("String")

\* Schema::parse_list(&[raw]): the schemas parsed as one batch, in input
\* order.  A type name that is the name of a record of the batch becomes
\* Schema::Ref; a type name defined nowhere in the batch, or a record name
\* defined twice, is a parse error.
parse_list(raws) ==
    LET names == {raws[i].name : i \in 1..Len(raws)}
        parse_type(type) ==
            IF type \in PrimitiveTypes THEN PrimitiveSchema(type) ELSE Ref(type)
        parse(raw) ==
            Record([j \in 1..Len(raw.fields) |-> raw.fields[j][1]],
                   [j \in 1..Len(raw.fields) |-> parse_type(raw.fields[j][2])])
        resolvable ==
            \A i \in 1..Len(raws) : \A j \in 1..Len(raws[i].fields) :
                raws[i].fields[j][2] \in PrimitiveTypes \cup names
        distinct ==
            \A i, j \in 1..Len(raws) : raws[i].name = raws[j].name => i = j
    IN  IF resolvable /\ distinct
        THEN [res |-> "ok", schemas |-> [i \in 1..Len(raws) |-> parse(raws[i])]]
        ELSE [res |-> "err", schemas |-> <<>>]

\* A loop that would cache the requested key only.
insert_parsed_root(map, schemas, avro_schemas, i, rc) ==
    insert(map, <<schemas[i][1], schemas[i][2]>>,
           [rc |-> rc + i, schema |-> avro_schemas[i]])

\* The loop of get that fills the cache: entry i of the batch gets a new
\* Rc holding parsed schema i.
RECURSIVE insert_parsed(_, _, _, _, _)
insert_parsed(map, schemas, avro_schemas, i, rc) ==
    IF i > Len(avro_schemas) THEN map
    ELSE insert_parsed(
             insert(map, <<schemas[i][1], schemas[i][2]>>,
                    [rc |-> rc + i, schema |-> avro_schemas[i]]),
             schemas, avro_schemas, i + 1, rc)

\* A get that would drop the expanded cache when it fails.
Got_clearing(key, fail, res, rc, sch, st, newCache) ==
    [key |-> key, fail |-> fail, res |-> res, rc |-> rc, schema |-> sch,
     schemas |-> [i \in 1..Len(st.schemas) |-> <<st.schemas[i][1], st.schemas[i][2]>>],
     gets |-> st.gets,
     cache |-> IF res = "ok" THEN newCache ELSE [k \in {} |-> 0],
     cache_raw |-> st.cache_raw]

\* What a get call hands back and how it leaves the registry.
Got(key, fail, res, rc, sch, st, newCache) ==
    [key |-> key, fail |-> fail, res |-> res, rc |-> rc, schema |-> sch,
     schemas |-> [i \in 1..Len(st.schemas) |-> <<st.schemas[i][1], st.schemas[i][2]>>],
     gets |-> st.gets, cache |-> newCache, cache_raw |-> st.cache_raw]

NoSchema == Sch("None")

\* AvroRegistry::get
get(srv, fail, expanded, raw, rc, subject, version) ==
    LET key == <<subject, version>>
        idle == Walk(raw, <<>>, EmptyMap, <<>>)
    IN  IF key \in DOMAIN expanded
        THEN Got(key, fail, "ok", expanded[key].rc, expanded[key].schema, idle, expanded)
        ELSE LET r == resolve(srv, fail, subject, version, idle) IN
             IF r.res # "ok"
             THEN Got(key, fail, r.res, 0, NoSchema, r.st, expanded)
             ELSE LET schemas_raw == [i \in 1..Len(r.st.schemas) |-> r.st.schemas[i][3]]
                      parsed == parse_list(schemas_raw)
                  IN  IF parsed.res # "ok"
                      THEN Got(key, fail, "DeserializationFailed", 0, NoSchema, r.st, expanded)
                      ELSE LET filled == insert_parsed(expanded, r.st.schemas,
                                                       parsed.schemas, 1, rc)
                           IN  Got(key, fail, "ok", filled[key].rc, filled[key].schema,
                                   r.st, filled)

---------------------------------------------------------------------------
(* The registry servers the model is run against.                          *)

UserRaw == RawRecord("User", <<<<"id", "long">>, <<"address", "Address">>>>)

AddressRaw == RawRecord("Address", <<<<"street", "string">>, <<"location", "Location">>>>)

LocationRaw == RawRecord("Location", <<<<"latitude", "float">>, <<"longtitude", "float">>>>)

\* User -> Address -> Location, as in the registry test, and an Order that
\* references Address as well.
ChainServer ==
    (<<"User-value", 2>> :>
        Subject(UserRaw, <<Reference("Address", "Address-value", 1)>>))
    @@ (<<"Address-value", 1>> :>
        Subject(AddressRaw, <<Reference("Location", "Location-value", 3)>>))
    @@ (<<"Location-value", 3>> :> Subject(LocationRaw, <<>>))
    @@ (<<"Order-value", 1>> :>
        Subject(RawRecord("Order", <<<<"id", "long">>, <<"address", "Address">>>>),
                <<Reference("Address", "Address-value", 1)>>))

\* A diamond: User -> Address -> Location and User -> Order -> Location,
\* Order naming the subject without the "-value" suffix.
DiamondServer ==
    (<<"User-value", 2>> :>
        Subject(RawRecord("User", <<<<"address", "Address">>, <<"order", "Order">>>>),
                <<Reference("Address", "Address-value", 1),
                  Reference("Order", "Order-value", 1)>>))
    @@ (<<"Address-value", 1>> :>
        Subject(AddressRaw, <<Reference("Location", "Location-value", 3)>>))
    @@ (<<"Order-value", 1>> :>
        Subject(RawRecord("Order", <<<<"id", "long">>, <<"to", "Location">>>>),
                <<Reference("Location", "Location", 3)>>))
    @@ (<<"Location-value", 3>> :> Subject(LocationRaw, <<>>))

\* A back edge: User -> Address -> User.
CycleServer ==
    (<<"User-value", 2>> :>
        Subject(UserRaw, <<Reference("Address", "Address-value", 1)>>))
    @@ (<<"Address-value", 1>> :>
        Subject(RawRecord("Address", <<<<"street", "string">>, <<"owner", "User">>>>),
                <<Reference("User", "User-value", 2)>>))
    @@ (<<"Location-value", 3>> :> Subject(LocationRaw, <<>>))

Servers == {ChainServer, DiamondServer, CycleServer}

\* The (subject, version) pairs a caller asks for: the four subjects and a
\* version the servers do not have.
GetKeys ==
    {<<"User", 2>>, <<"Address", 1>>, <<"Location", 3>>, <<"Order", 1>>,
     <<"User", 1>>}

\* The requests that can fail during one get call.
Failures == {NoFailure, <<"Address-value", 1>>, <<"Location-value", 3>>}

NoGet ==
    [key |-> NoFailure, fail |-> NoFailure, res |-> "none", rc |-> 0,
     schema |-> NoSchema, schemas |-> <<>>, gets |-> <<>>]

\* AvroRegistry::new(client), nothing asked yet
NewRegistry ==
    /\ cache = EmptyMap
    /\ cache_raw = EmptyMap
    /\ requests = EmptyMap
    /\ nextRc = 0
    /\ last = NoGet
    /\ handed = EmptyMap
    /\ nGets = 0

---------------------------------------------------------------------------
(* The schema expander: register_schema, expand_schema, name_to_str        *)
(* (sregistry/src/avro.rs; registry/src/lib.rs holds the same code).       *)
(* The schemas handed to the expander carry what expansion has to keep:    *)
(*   Name        [namespace: Option<String>, name]                         *)
(*   RecordField [name, doc, aliases, default, custom_attributes, order,   *)
(*                position, schema]                                        *)
(*   Record      [k, name, aliases, doc, lookup, attributes, fields]       *)
(*   Map / Array [k, types / items, attributes]                            *)
(*   Union       [k, schemas, variant_index]                               *)
(*   Ref         [k, name]                                                 *)
(* and the leaves are the nodes Sch(k), Fixed(n), Decimal(p, s) above.     *)

\* Option<T> as a sequence of at most one value
None == <<>>

Some(x) == <<x>>

\* apache_avro::schema::Name
Name(namespace, name) == [namespace |-> namespace, name |-> name]

\* Schema::Ref { name }
SchemaRef(name) == [k |-> "Ref", name |-> name]

\* Schema::Map(MapSchema { types, attributes })
MapSchema(types, attributes) ==
    [k |-> "Map", types |-> types, attributes |-> attributes]

\* Schema::Array(ArraySchema { items, attributes })
ArraySchema(items, attributes) ==
    [k |-> "Array", items |-> items, attributes |-> attributes]

\* Schema::Record(RecordSchema { name, aliases, doc, lookup, attributes, fields })
RecordSchema(name, aliases, doc, lookup, attributes, fields) ==
    [k |-> "Record", name |-> name, aliases |-> aliases, doc |-> doc,
     lookup |-> lookup, attributes |-> attributes, fields |-> fields]

\* SchemaKind::is_named
is_named(kind) == kind \in {"Record", "Enum", "Fixed", "Ref"}

\* UnionSchema::new(schemas): the first variant that is itself a union, or
\* that repeats the kind of an earlier unnamed variant, is an error;
\* otherwise the union with its index of the unnamed kinds.
UnionSchema_new(schemas) ==
    LET dup(i) == /\ ~is_named(schemas[i].k)
                  /\ \E j \in 1..(i - 1) : schemas[j].k = schemas[i].k
        bad == {i \in 1..Len(schemas) : schemas[i].k = "Union" \/ dup(i)}
        first == CHOOSE i \in bad : \A j \in bad : i <= j
        unnamed == {schemas[i].k : i \in {j \in 1..Len(schemas) : ~is_named(schemas[j].k)}}
    IN  IF bad # {}
        THEN [res |-> "err",
              msg |-> IF schemas[first].k = "Union"
                      THEN "Unions may not directly contain a union"
                      ELSE "Unions cannot contain duplicate types"]
        ELSE [res |-> "ok",
              union |-> [k |-> "Union", schemas |-> schemas,
                         variant_index |->
                            [kd \in unnamed |->
                                CHOOSE i \in 1..Len(schemas) : schemas[i].k = kd]]]

\* A field rebuilt with everything of the first but the schema lost.
expand_field_bare(field, sch) ==
    [name |-> field.name, doc |-> None, aliases |-> None, default |-> None,
     custom_attributes |-> {}, order |-> "Ascending", position |-> 0,
     schema |-> sch]

\* RecordField { name: field.name.clone(), ..., schema: <the expanded one> }
expand_field(field, sch) ==
    [name |-> field.name, doc |-> field.doc, aliases |-> field.aliases,
     default |-> field.default, custom_attributes |-> field.custom_attributes,
     order |-> field.order, position |-> field.position, schema |-> sch]

\* A name written without its namespace.
name_to_str_bare(name) == name.name

\* name_to_str
name_to_str(name) ==
    IF name.namespace # None
    THEN name.namespace[1] \o "." \o name.name
    ELSE "." \o name.name

\* A name map in which nothing is found.
schemas_get_none(schemas, name) == None

\* schemas.get(name)
schemas_get(schemas, name) ==
    IF name \in DOMAIN schemas THEN Some(schemas[name]) ELSE None

\* register_schema
register_schema(sch, schemas) ==
    IF sch.k = "Record"
    THEN [res |-> "ok", schemas |-> insert(schemas, sch.name, sch)]
    ELSE [res |-> "ExpectedRecord", schemas |-> schemas]

\* The outcomes of expand_schema.  The function is pure and recursive and
\* keeps no record of where it has been: a call made with the arguments of
\* a call that is still running repeats it without end ("unbounded").
Expanded(sch) == [res |-> "ok", schema |-> sch, msg |-> ""]

ResolutionFailed(msg) == [res |-> "ResolutionFailed", schema |-> NoSchema, msg |-> msg]

Unbounded == [res |-> "unbounded", schema |-> NoSchema, msg |-> ""]

RECURSIVE expand_schema(_, _, _)
RECURSIVE expand_each(_, _, _, _)

\* .iter().map(|s| expand_schema(s, schemas)?).collect(): the schemas
\* srcs[i..] expanded in order, up to the first one that is not Ok.
expand_each(srcs, schemas, running, i) ==
    IF i > Len(srcs) THEN Expanded(<<>>)
    ELSE LET head == expand_schema(srcs[i], schemas, running) IN
         IF head.res # "ok" THEN head
         ELSE LET tail == expand_each(srcs, schemas, running, i + 1) IN
              IF tail.res # "ok" THEN tail
              ELSE Expanded(<<head.schema>> \o tail.schema)

\* expand_schema(src, schemas); `running` is the set of the names whose
\* schemas the enclosing calls are expanding.
expand_schema(src, schemas, running) ==
    CASE src.k = "Record" ->
            LET fields == expand_each([i \in 1..Len(src.fields) |-> src.fields[i].schema],
                                      schemas, running, 1)
            IN  IF fields.res # "ok" THEN fields
                ELSE Expanded(RecordSchema(src.name, src.aliases, src.doc, src.lookup,
                                 src.attributes,
                                 [i \in 1..Len(src.fields) |->
                                     expand_field(src.fields[i], fields.schema[i])]))
      [] src.k = "Map" ->
            LET types == expand_schema(src.types, schemas, running) IN
            IF types.res # "ok" THEN types
            ELSE Expanded(MapSchema(types.schema, src.attributes))
      [] src.k = "Array" ->
            LET items == expand_schema(src.items, schemas, running) IN
            IF items.res # "ok" THEN items
            ELSE Expanded(ArraySchema(items.schema, src.attributes))
      [] src.k = "Union" ->
            LET union_schemas == expand_each(src.schemas, schemas, running, 1) IN
            IF union_schemas.res # "ok" THEN union_schemas
            ELSE LET made == UnionSchema_new(union_schemas.schema) IN
                 IF made.res = "ok" THEN Expanded(made.union)
                 ELSE ResolutionFailed(made.msg)
      [] src.k = "Ref" ->
            LET resolved == schemas_get(schemas, src.name) IN
            IF resolved # None
            THEN IF src.name \in running
                 THEN Unbounded
                 ELSE expand_schema(resolved[1], schemas, running \cup {src.name})
            ELSE ResolutionFailed(name_to_str(src.name))
      [] OTHER -> Expanded(src)

(* The schemas and names the expander is exercised with.                   *)

\* A record field without documentation, aliases, default or attributes.
PlainField(name, position, sch) ==
    [name |-> name, doc |-> None, aliases |-> None, default |-> None,
     custom_attributes |-> {}, order |-> "Ascending", position |-> position,
     schema |-> sch]

\* The record the parser builds for the fields given, in the order given.
PlainRecord(name, fields) ==
    RecordSchema(name, None, None,
                 [n \in {fields[i].name : i \in 1..Len(fields)} |->
                     (CHOOSE i \in 1..Len(fields) : fields[i].name = n) - 1],
                 {}, fields)

\* The union UnionSchema::new builds of the variants given.
UnionOf(schemas) == UnionSchema_new(schemas).union

NameA == Name(None, "A")

NameB == Name(None, "B")

NameC == Name(Some("ns"), "C")

\* A record with documentation, aliases, a default, attributes and a
\* descending field.
Documented ==
    RecordSchema(Name(Some("ns"), "D"), Some(<<"Old">>), Some("a record"),
        ("id" :> 0) @@ ("tags" :> 1) @@ ("opt" :> 2),
        {<<"owner", "x">>},
        << [PlainField("id", 0, Sch("Long")) EXCEPT
               !.doc = Some("key"), !.default = Some("0"), !.order = "Descending"],
           [PlainField("tags", 1, ArraySchema(StringS, {<<"max", "4">>})) EXCEPT
               !.aliases = Some(<<"labels">>), !.custom_attributes = {<<"pii", "no">>}],
           PlainField("opt", 2, UnionOf(<<NullS, MapSchema(IntS, {}), Fixed(4)>>)) >>)

\* Schemas without a Ref node.
RefFreeSchemas ==
    { NullS, IntS, StringS, Fixed(4), Decimal(5, 2), Sch("Enum"),
      ArraySchema(IntS, {}), MapSchema(StringS, {<<"k", "v">>}),
      UnionOf(<<NullS, IntS>>), UnionOf(<<IntS, StringS, NullS>>),
      PlainRecord(NameA, <<PlainField("a", 0, IntS)>>),
      PlainRecord(NameB, <<PlainField("x", 0, StringS),
                           PlainField("y", 1, PlainRecord(NameC, <<PlainField("c", 0, NullS)>>))>>),
      Documented }

\* The records registered under the names A, B and ns.C: for A and B one
\* without references, one that continues a chain and one that closes a
\* cycle.
Registered ==
    { PlainRecord(NameA, <<PlainField("a", 0, IntS)>>),
      PlainRecord(NameA, <<PlainField("a", 0, IntS), PlainField("b", 1, SchemaRef(NameB))>>),
      PlainRecord(NameA, <<PlainField("next", 0, UnionOf(<<NullS, SchemaRef(NameA)>>))>>),
      PlainRecord(NameB, <<PlainField("b", 0, StringS)>>),
      PlainRecord(NameB, <<PlainField("c", 0, ArraySchema(SchemaRef(NameC), {}))>>),
      PlainRecord(NameB, <<PlainField("a", 0, MapSchema(SchemaRef(NameA), {}))>>),
      PlainRecord(NameC, <<PlainField("c", 0, NullS)>>) }

\* Schemas with Ref nodes: a bare Ref, Refs below records, arrays, maps and
\* unions, names that are never registered (M, ns.x.N) before and after
\* names that can be.
RefSchemas ==
    { SchemaRef(NameA), SchemaRef(NameC), SchemaRef(Name(Some("ns.x"), "N")),
      ArraySchema(SchemaRef(NameB), {}),
      MapSchema(SchemaRef(NameC), {}),
      UnionOf(<<NullS, SchemaRef(NameA), SchemaRef(NameB)>>),
      PlainRecord(Name(None, "R"), <<PlainField("m", 0, SchemaRef(Name(None, "M"))),
                                     PlainField("a", 1, SchemaRef(NameA))>>),
      PlainRecord(Name(None, "R"), <<PlainField("a", 0, SchemaRef(NameA)),
                                     PlainField("n", 1, SchemaRef(Name(Some("ns.x"), "N")))>>),
      PlainRecord(Name(None, "R"), <<PlainField("a", 0, SchemaRef(NameA)),
                                     PlainField("a2", 1, SchemaRef(NameA))>>) }

\* No call of the expander made yet, the name map as HashMap::new() left it.
NewExpander ==
    /\ name_map = EmptyMap
    /\ registered = "none"
    /\ expansion = [pass |-> 0, src |-> NoSchema, schemas |-> EmptyMap,
                    out |-> Expanded(NoSchema)]

---------------------------------------------------------------------------
(* AvroRegistry::get call by call: the recursion of resolve as the stack   *)
(* of its running calls.  A frame [key, refs, i] is a call of resolve that *)
(* has fetched key and is at reference i of the loop over refs.            *)

Frame(key, refs, i) == [key |-> key, refs |-> refs, i |-> i]

\* One get call in progress: its arguments, the request that fails if
\* made, how far it is, and the locals of get that resolve works on
\* (schemas, seen), with the HTTP GETs issued and the resolve calls made.
Resolving(status, key, fail, schemas, seen, gets, calls) ==
    [status |-> status, key |-> key, fail |-> fail, schemas |-> schemas,
     seen |-> seen, gets |-> gets, calls |-> calls]

\* The (subject, version) the next resolve call is made with: the
\* arguments of get, or the reference the innermost loop is at.
pending(fs, key) ==
    IF fs = <<>> THEN key
    ELSE LET f == fs[Len(fs)] IN
         <<strip_suffix(f.refs[f.i].subject, "-value"), f.refs[f.i].version>>

\* A loop that would stay at the reference it has just resolved.
returned_stay(fs) == fs

\* A resolve call has returned Ok(()): the loop of its caller moves on.
returned(fs) ==
    IF fs = <<>> THEN fs ELSE [fs EXCEPT ![Len(fs)].i = @ + 1]

\* Where get is once a resolve call has returned Ok(()).
after_return(fs) == IF fs = <<>> THEN "walked" ELSE "walking"

\* A self-reference: Node -> Node.
SelfServer ==
    (<<"Node-value", 1>> :>
        Subject(RawRecord("Node", <<<<"id", "long">>, <<"next", "Node">>>>),
                <<Reference("Node", "Node-value", 1)>>))

\* No get call made yet.
NoWalk ==
    /\ frames = <<>>
    /\ resolving = Resolving("idle", NoFailure, NoFailure, <<>>, EmptyMap, <<>>, <<>>)

---------------------------------------------------------------------------
(* The state machine.                                                      *)
(*   schema  : the Avro schema the caller works with                       *)
(*   arrow   : what convert_schema(schema) returned, if called             *)
(*   builder : what create_builder(schema, cap) returned, if called, and   *)
(*             the builder tree as the appends have left it                *)
(*   call    : the last append_record call: schema, value and outcome      *)
(*   nCalls  : number of append_record calls made                          *)
(*   nOk     : number of append_record calls that returned Ok              *)

NoCall == [s |-> Sch("None"), v |-> Val("None", 0), res |-> "none"]

Init ==
    /\ schema \in Schemas
    /\ arrow = [res |-> "none", fields |-> <<>>]
    /\ builder = [res |-> "none", b |-> NoBuilder]
    /\ call = NoCall
    /\ nCalls = 0
    /\ nOk = 0
    /\ server = ChainServer
    /\ NewRegistry
    /\ NewExpander
    /\ NoWalk

\* A panic aborts the process: nothing runs after it.
Alive == arrow.res # "panic" /\ call.res # "panic"

\* convert_schema(&schema), the clock showing clk during the call.
ConvertSchema ==
    /\ Alive
    /\ arrow.res = "none"
    /\ \E clk \in Clocks : arrow' = convert_schema(schema, clk)
    /\ UNCHANGED <<schema, builder, call, nCalls, nOk>>
    /\ UNCHANGED <<registryVars, expandVars, walkVars>>

\* create_builder(&schema, cap), the clock showing clk during the call.
CreateBuilder ==
    /\ Alive
    /\ builder.res = "none"
    /\ \E cap \in Caps, clk \in Clocks :
          LET r == create_builder(schema, cap, clk) IN
          builder' = [res |-> r.res, b |-> r.b]
    /\ UNCHANGED <<schema, arrow, call, nCalls, nOk>>
    /\ UNCHANGED <<registryVars, expandVars, walkVars>>

\* append_record(&mut builder, &s, &v)
AppendRecord ==
    /\ Alive
    /\ builder.res = "ok"
    /\ nCalls < MaxAppends
    /\ \E s \in AppendSchemas(schema) : \E v \in ValuesFor(s) :
          LET r == append_record(builder.b, s, v) IN
          /\ builder' = [builder EXCEPT !.b = r.b]
          /\ call' = [s |-> s, v |-> v, res |-> r.res]
          /\ nOk' = IF r.res = "ok" THEN nOk + 1 ELSE nOk
    /\ nCalls' = nCalls + 1
    /\ UNCHANGED <<schema, arrow>>
    /\ UNCHANGED <<registryVars, expandVars, walkVars>>

Next == ConvertSchema \/ CreateBuilder \/ AppendRecord

Spec == Init /\ [][Next]_vars

---------------------------------------------------------------------------
(* The state machine of the registry.                                      *)
(*   server    : the content of the schema registry server                 *)
(*   cache, cache_raw : the registry's two caches                          *)
(*   requests  : per key, the number of HTTP GETs issued so far            *)
(*   nextRc    : number of Rc allocations made so far                      *)
(*   last      : the last get call: key, outcome, the Rc handed back, the  *)
(*               batch given to the parser, the HTTP GETs of the call      *)
(*   handed    : per key, the Rc the first successful get handed back      *)
(*   nGets     : number of get calls made                                  *)

InitRegistry ==
    /\ server \in Servers
    /\ NewRegistry
    /\ NewExpander
    /\ NoWalk
    /\ schema = NullS
    /\ arrow = [res |-> "none", fields |-> <<>>]
    /\ builder = [res |-> "none", b |-> NoBuilder]
    /\ call = NoCall
    /\ nCalls = 0
    /\ nOk = 0

\* The number of times key occurs in the sequence gets.
Count(gets, key) == Cardinality({i \in 1..Len(gets) : gets[i] = key})

\* registry.get(subject, version), the request for `fail` failing if made
Get ==
    /\ nGets < MaxGets
    /\ \E key \in GetKeys, fail \in Failures :
          LET g == get(server, fail, cache, cache_raw, nextRc, key[1], key[2]) IN
          /\ cache' = g.cache
          /\ cache_raw' = g.cache_raw
          /\ requests' =
                [k \in DOMAIN requests \cup {g.gets[i] : i \in 1..Len(g.gets)} |->
                    (IF k \in DOMAIN requests THEN requests[k] ELSE 0) + Count(g.gets, k)]
          /\ nextRc' = IF g.cache = cache THEN nextRc ELSE nextRc + Len(g.schemas)
          /\ last' = [key |-> g.key, fail |-> g.fail, res |-> g.res, rc |-> g.rc,
                      schema |-> g.schema, schemas |-> g.schemas, gets |-> g.gets]
          /\ handed' = IF g.res = "ok" /\ key \notin DOMAIN handed
                       THEN insert(handed, key, g.rc)
                       ELSE handed
    /\ nGets' = nGets + 1
    /\ UNCHANGED server
    /\ UNCHANGED <<avroVars, expandVars, walkVars>>

NextRegistry == Get

SpecRegistry == InitRegistry /\ [][NextRegistry]_vars

---------------------------------------------------------------------------
(* The state machine of the expander.                                      *)
(*   name_map   : the Name -> Schema map register_schema fills             *)
(*   registered : what the last register_schema call returned              *)
(*   expansion  : the last expand_schema call: how many times in a row the *)
(*                expander has been applied (pass), its two arguments and  *)
(*                its outcome                                              *)

InitExpand ==
    /\ NewExpander
    /\ NoWalk
    /\ server = ChainServer
    /\ NewRegistry
    /\ schema = NullS
    /\ arrow = [res |-> "none", fields |-> <<>>]
    /\ builder = [res |-> "none", b |-> NoBuilder]
    /\ call = NoCall
    /\ nCalls = 0
    /\ nOk = 0

\* register_schema(&sch, &mut name_map)
RegisterSchema ==
    /\ \E sch \in Registered \cup {IntS, UnionOf(<<NullS, IntS>>)} :
          LET r == register_schema(sch, name_map) IN
          /\ name_map' = r.schemas
          /\ registered' = r.res
    /\ UNCHANGED expansion
    /\ UNCHANGED <<avroVars, registryVars, walkVars>>

\* expand_schema(&src, &name_map)
ExpandSchema ==
    /\ \E src \in RefFreeSchemas \cup RefSchemas :
          expansion' = [pass |-> 1, src |-> src, schemas |-> name_map,
                        out |-> expand_schema(src, name_map, {})]
    /\ UNCHANGED <<name_map, registered>>
    /\ UNCHANGED <<avroVars, registryVars, walkVars>>

\* expand_schema applied to the schema the last call returned
ExpandOutput ==
    /\ expansion.pass >= 1
    /\ expansion.pass < MaxPasses
    /\ expansion.out.res = "ok"
    /\ expansion' = [pass |-> expansion.pass + 1, src |-> expansion.out.schema,
                     schemas |-> name_map,
                     out |-> expand_schema(expansion.out.schema, name_map, {})]
    /\ UNCHANGED <<name_map, registered>>
    /\ UNCHANGED <<avroVars, registryVars, walkVars>>

NextExpand == RegisterSchema \/ ExpandSchema \/ ExpandOutput

SpecExpand == InitExpand /\ [][NextExpand]_vars

---------------------------------------------------------------------------
(* The state machine of one registry, get taken one resolve call at a      *)
(* time.                                                                   *)
(*   resolving : the get call in progress or the last one finished         *)
(*   frames    : the running resolve calls, innermost last                 *)

InitWalk ==
    /\ server \in Servers \cup {SelfServer}
    /\ NewRegistry
    /\ NewExpander
    /\ NoWalk
    /\ schema = NullS
    /\ arrow = [res |-> "none", fields |-> <<>>]
    /\ builder = [res |-> "none", b |-> NoBuilder]
    /\ call = NoCall
    /\ nCalls = 0
    /\ nOk = 0

\* A get call is running.
InGet == resolving.status \in {"walking", "walked"}

\* registry.get(subject, version) is called: a hit of the expanded cache
\* returns at once, otherwise resolve is about to be called.
CallGet ==
    /\ ~InGet
    /\ nGets < MaxWalks
    /\ \E key \in GetKeys \cup {<<"Node", 1>>}, fail \in Failures :
          resolving' = Resolving(IF key \in DOMAIN cache THEN "ok" ELSE "walking",
                                 key, fail, <<>>, EmptyMap, <<>>, <<>>)
    /\ frames' = <<>>
    /\ nGets' = nGets + 1
    /\ UNCHANGED <<server, cache, cache_raw, requests, nextRc, last, handed>>
    /\ UNCHANGED <<avroVars, expandVars>>

\* resolve(subject, version, ..) is entered and runs up to its return or
\* to the first reference of its loop.
CallResolve ==
    /\ resolving.status = "walking"
    /\ Len(frames) < MaxStack
    /\ frames # <<>> => frames[Len(frames)].i <= Len(frames[Len(frames)].refs)
    /\ LET key == pending(frames, resolving.key)
           status == seen_get(resolving.seen, key)
           called == [resolving EXCEPT !.calls = Append(@, key)]
       IN  IF status # {}
           THEN IF status = {0}
                THEN /\ resolving' = [called EXCEPT !.status = "ResolutionFailed"]
                     /\ frames' = <<>>
                     /\ UNCHANGED cache_raw
                ELSE /\ resolving' = called
                     /\ frames' = returned(frames)
                     /\ UNCHANGED cache_raw
           ELSE IF key \in DOMAIN cache_raw
                THEN /\ resolving' =
                          [called EXCEPT
                              !.schemas = Append(@, <<key[1], key[2], cache_raw[key]>>),
                              !.seen = insert(@, key, 1),
                              !.status = after_return(frames)]
                     /\ frames' = returned(frames)
                     /\ UNCHANGED cache_raw
                ELSE LET got == get_subject(server, resolving.fail, key[1], key[2])
                         asked == [called EXCEPT !.seen = insert(@, key, 0),
                                                 !.gets = Append(@, key)]
                     IN  IF got.res # "ok"
                         THEN /\ resolving' = [asked EXCEPT !.status = "ClientError"]
                              /\ frames' = <<>>
                              /\ UNCHANGED cache_raw
                         ELSE /\ cache_raw' = insert(cache_raw, key, got.response.schema)
                              /\ resolving' =
                                   [asked EXCEPT
                                       !.schemas = Append(@, <<key[1], key[2], got.response.schema>>)]
                              /\ frames' = Append(frames,
                                               Frame(key, got.response.references, 1))
    /\ UNCHANGED <<server, cache, requests, nextRc, last, handed, nGets>>
    /\ UNCHANGED <<avroVars, expandVars>>

\* The loop over the references of the innermost call is over: the key is
\* marked done and the call returns Ok(()).
ReturnResolve ==
    /\ resolving.status = "walking"
    /\ frames # <<>>
    /\ frames[Len(frames)].i > Len(frames[Len(frames)].refs)
    /\ LET rest == SubSeq(frames, 1, Len(frames) - 1) IN
       /\ frames' = returned(rest)
       /\ resolving' = [resolving EXCEPT
                           !.seen = insert(@, frames[Len(frames)].key, 1),
                           !.status = after_return(rest)]
    /\ UNCHANGED registryVars
    /\ UNCHANGED <<avroVars, expandVars>>

\* resolve has returned Ok(()) to get: the batch is parsed and cached.
FinishGet ==
    /\ resolving.status = "walked"
    /\ LET parsed == parse_list([i \in 1..Len(resolving.schemas) |->
                                    resolving.schemas[i][3]])
       IN  IF parsed.res # "ok"
           THEN /\ resolving' = [resolving EXCEPT !.status = "DeserializationFailed"]
                /\ UNCHANGED <<cache, nextRc>>
           ELSE /\ cache' = insert_parsed(cache, resolving.schemas, parsed.schemas,
                                          1, nextRc)
                /\ nextRc' = nextRc + Len(resolving.schemas)
                /\ resolving' = [resolving EXCEPT !.status = "ok"]
    /\ UNCHANGED frames
    /\ UNCHANGED <<server, cache_raw, requests, last, handed, nGets>>
    /\ UNCHANGED <<avroVars, expandVars>>

NextWalk == CallGet \/ CallResolve \/ ReturnResolve \/ FinishGet

\* get is an ordinary blocking call on one thread: once called it keeps
\* executing; when the caller calls get again is up to the caller.
SpecWalk == InitWalk /\ [][NextWalk]_vars /\ WF_vars(CallResolve \/ ReturnResolve \/ FinishGet)

---------------------------------------------------------------------------
(* Vocabulary of the properties.                                           *)

\* The last step was an append_record call.
Appended == nCalls' = nCalls + 1

\* Every append_record call before the last one returned Ok.
PriorOk == nOk = nCalls - (IF call.res = "ok" THEN 0 ELSE 1)

\* Every child builder of every StructBuilder of the tree is as long as
\* that StructBuilder.
RECURSIVE Aligned(_)
Aligned(b) ==
    /\ \A i \in 1..Len(b.children) : Aligned(b.children[i])
    /\ b.k = "StructBuilder" =>
          \A i \in 1..Len(b.children) : BLen(b.children[i]) = BLen(b)

\* Builder after is builder before with exactly one more slot, a null one.
OneNullAppended(before, after) ==
    /\ BLen(after) = BLen(before) + 1
    /\ SubSeq(after.rows, 1, BLen(before)) = before.rows
    /\ ~after.rows[BLen(after)].valid
    /\ after.children = before.children

\* The nullability rule: the declared schema is a Union with a Null variant.
ContainsNull(s) ==
    s.k = "Union" /\ Cardinality({i \in 1..Len(s.sub) : s.sub[i].k = "Null"}) > 0

\* The union is [Null, T].
NullFirstPair(s) == s.k = "Union" /\ Len(s.sub) = 2 /\ s.sub[1].k = "Null"

\* Some union of the schema tree is not [Null, T].
RECURSIVE HasOtherUnion(_)
HasOtherUnion(s) ==
    \/ s.k = "Union" /\ ~NullFirstPair(s)
    \/ \E i \in 1..Len(s.sub) : HasOtherUnion(s.sub[i])

\* The type dt translated from schema s marks its item, values and struct
\* fields nullable exactly where the declared schema contains Null.
RECURSIVE NullabilityFollowsRule(_, _)
NullabilityFollowsRule(s, dt) ==
    CASE s.k = "Union" -> NullabilityFollowsRule(s.sub[2], dt)
      [] s.k = "Array" ->
            /\ dt.fields[1].nullable = ContainsNull(s.sub[1])
            /\ NullabilityFollowsRule(s.sub[1], dt.fields[1].dt)
      [] s.k = "Map" ->
            LET values == dt.fields[1].dt.fields[2] IN
            /\ values.nullable = ContainsNull(s.sub[1])
            /\ NullabilityFollowsRule(s.sub[1], values.dt)
      [] s.k = "Record" ->
            /\ Len(dt.fields) = Len(s.sub)
            /\ \A i \in 1..Len(s.sub) :
                  /\ dt.fields[i].nullable = ContainsNull(s.sub[i])
                  /\ NullabilityFollowsRule(s.sub[i], dt.fields[i].dt)
      [] OTHER -> TRUE

\* The tz strings carried by the timestamps of a data type.
RECURSIVE TzStrings(_)
TzStrings(dt) ==
    (IF dt.k = "Timestamp" /\ dt.tz # "None" THEN {dt.tz} ELSE {})
    \cup UNION {TzStrings(dt.fields[i].dt) : i \in 1..Len(dt.fields)}

---------------------------------------------------------------------------
(* Properties.                                                             *)

\* C1: after every successful append_record call with a conforming value on
\* a tree made by create_builder, whose children were aligned before the
\* call, every child builder of each StructBuilder has the length of that
\* StructBuilder, also when a record position receives Null.
C1_StructChildrenAligned ==
    [][(/\ Appended
        /\ call'.s = schema
        /\ Conforms(call'.s, call'.v)
        /\ call'.res = "ok"
        /\ Aligned(builder.b))
       => Aligned(builder'.b)]_vars

\* C2: for every schema, append_record with the bare value Null returns Ok
\* and appends exactly one null slot to the given builder.
C2_BareNullAppendsNull ==
    [][(Appended /\ call'.v = VNull)
       => /\ call'.res = "ok"
          /\ OneNullAppended(builder.b, builder'.b)]_vars

\* C3: when the value's variant is not the schema's variant and the value
\* is not Null, append_record returns an error to its caller (it does not
\* panic).
C3_MismatchReturnsErr ==
    (call.res # "none" /\ call.v.k # "Null" /\ call.v.k # call.s.k)
        => call.res = "err"

\* C4: append_record on a Union schema that is not exactly [Null, T]
\* returns an error and leaves the builder unchanged.
C4_OtherUnionRejected ==
    [][(Appended /\ call'.s.k = "Union" /\ ~NullFirstPair(call'.s))
       => /\ call'.res = "err"
          /\ builder'.b = builder.b]_vars

\* C5: convert_schema on a root that is not a Record returns an error value
\* to the caller (it does not panic).
C5_NonRecordRootReturnsErr ==
    (arrow.res # "none" /\ schema.k # "Record") => arrow.res = "err"

\* C6: whenever convert_schema succeeds, every field of the root record and
\* of every nested Record, Array item and Map values field is nullable
\* exactly when the declared schema at that position is a Union containing
\* Null.
C6_NullableIffUnionWithNull ==
    arrow.res = "ok" => NullabilityFollowsRule(schema, Struct(arrow.fields))

\* C6 witness: a translated record with a nullable field and a List field.
C6_Witness ==
    /\ arrow.res = "ok"
    /\ \E i, j \in 1..Len(arrow.fields) :
          /\ arrow.fields[i].nullable
          /\ ~arrow.fields[j].nullable
          /\ arrow.fields[j].dt.k = "List"

\* C7: a union that is not [Null, T], anywhere in the schema tree, makes
\* convert_schema return an error instead of a schema.
C7_OtherUnionReturnsErr ==
    (arrow.res # "none" /\ HasOtherUnion(schema)) => arrow.res = "err"

\* C8: within one convert_schema call the local offset is read once: all
\* local timestamps of the resulting schema carry the same tz string.
C8_OneTzPerTranslation ==
    arrow.res = "ok" => Cardinality(TzStrings(Struct(arrow.fields))) <= 1

\* C9: the data type of the array finished from create_builder(s) is the
\* type the translation gives for s, and so is the type of each child array
\* against its field (nesting, names, nullability, Decimal128(P,S), tz).
C9_BuilderTypeIsTranslatedType ==
    (arrow.res = "ok" /\ builder.res = "ok")
        => /\ finish_type(builder.b) = Struct(arrow.fields)
           /\ \A i \in 1..Len(builder.b.children) :
                 finish_type(builder.b.children[i]) = arrow.fields[i].dt

\* C10: on a builder made by create_builder(s, C), append_record with a
\* value conforming to s returns Ok, whatever C and however many values
\* were appended before.
C10_ConformingValueAccepted ==
    (call.res # "none" /\ call.s = schema /\ Conforms(call.s, call.v) /\ PriorOk)
        => call.res = "ok"

---------------------------------------------------------------------------
(* Vocabulary of the builder-contract properties.                          *)

\* Some node of the schema tree is a Ref.
RECURSIVE HasRef(_)
HasRef(s) == s.k = "Ref" \/ \E i \in 1..Len(s.sub) : HasRef(s.sub[i])

\* convert_to_datatype translates s, whatever the clock shows.
Translates(s) == \A clk \in Clocks : convert_to_datatype(s, clk).res = "ok"

\* The last slot of a builder, and the end offset of its last slot.
LastSlot(b) == b.rows[BLen(b)]

LastOffset(b) == IF BLen(b) = 0 THEN 0 ELSE LastSlot(b).p

\* Every append_record call made so far returned Ok.
AllOk == nOk = nCalls

\* The primitive and logical schemas whose values are stored unchanged.
RoundTripKinds == (ConvertKinds \ {"Decimal"}) \cup {"Uuid", "Fixed"}

---------------------------------------------------------------------------
(* Properties of the builder contract.                                     *)

\* C11: create_builder returns an error only for a schema that contains a
\* Ref or a union that is not [Null, T]; for every schema that
\* convert_to_datatype translates (BigDecimal included) create_builder
\* succeeds.
C11_BuilderForEveryTranslatedSchema ==
    builder.res # "none"
        => /\ builder.res = "err" => (HasRef(schema) \/ HasOtherUnion(schema))
           /\ Translates(schema) => builder.res = "ok"

\* C12: appending a Decimal value to a Decimal builder returns Ok and adds
\* exactly one valid slot: the value's integer when it fits an i128, the
\* integer 0 when it does not.
C12_DecimalAppendsIntegerOrZero ==
    [][(Appended /\ call'.s = schema /\ schema.k = "Decimal" /\ call'.v.k = "Decimal")
       => /\ call'.res = "ok"
          /\ builder'.b.rows =
                Append(builder.b.rows,
                       Slot(TRUE, IF call'.v.big THEN 0 ELSE call'.v.p))]_vars

\* C12 witness: a Decimal that does not fit an i128 was appended after
\* another value and stored as a valid 0.
C12_Witness ==
    /\ schema.k = "Decimal"
    /\ call.v.k = "Decimal" /\ call.v.big /\ call.v.p # 0
    /\ call.res = "ok"
    /\ BLen(builder.b) = 2
    /\ LastSlot(builder.b) = Slot(TRUE, 0)

\* C13: a Fixed value whose number of bytes is the schema's size L is
\* appended verbatim, whatever length tag the value carries; a Fixed value
\* with another number of bytes makes append_record return an error and
\* leaves the builder as it was.
C13_FixedLengthChecked ==
    [][(Appended /\ call'.s = schema /\ schema.k = "Fixed" /\ call'.v.k = "Fixed")
       => IF call'.v.n = schema.a
          THEN /\ call'.res = "ok"
               /\ builder'.b.rows = Append(builder.b.rows, Slot(TRUE, call'.v.p))
          ELSE /\ call'.res = "err"
               /\ builder'.b = builder.b]_vars

\* C13 witness: after a rejected call, a Fixed of L bytes under a length
\* tag other than L was accepted.
C13_Witness ==
    /\ schema.k = "Fixed"
    /\ call.v.k = "Fixed" /\ call.v.idx # schema.a /\ call.v.n = schema.a
    /\ call.res = "ok"
    /\ nCalls = 2 /\ nOk = 1
    /\ BLen(builder.b) = 1

\* C14: on a Map builder, as long as every append_record call returned Ok,
\* the offsets never decrease, the keys and the values builder have the
\* same length and the last offset is the number of entries appended; each
\* call adds one slot that ends Len(entries) after the previous one, a Null
\* value adding an absent slot with no entries.
C14_MapOffsetsTrackEntries ==
    /\ []((schema.k = "Map" /\ builder.res = "ok" /\ AllOk)
            => /\ \A i \in 1..(BLen(builder.b) - 1) :
                     builder.b.rows[i].p <= builder.b.rows[i + 1].p
               /\ BLen(builder.b.children[1]) = BLen(builder.b.children[2])
               /\ LastOffset(builder.b) = BLen(builder.b.children[1]))
    /\ [][(Appended /\ call'.s = schema /\ schema.k = "Map" /\ AllOk /\ call'.res = "ok")
          => /\ BLen(builder'.b) = BLen(builder.b) + 1
             /\ LastSlot(builder'.b).valid = (call'.v.k # "Null")
             /\ LastOffset(builder'.b) =
                   LastOffset(builder.b)
                   + (IF call'.v.k = "Null" THEN 0 ELSE Len(call'.v.sub))]_vars

\* C14 witness: a map of two entries followed by a Null.
C14_Witness ==
    /\ schema.k = "Map"
    /\ nOk = 2 /\ nCalls = 2
    /\ call.v = VNull
    /\ builder.b.rows = <<Slot(TRUE, 2), Slot(FALSE, 2)>>
    /\ BLen(builder.b.children[1]) = 2

\* C15: on the builder of a primitive or logical schema, each value of the
\* schema's variant is accepted and becomes the next row, payload
\* unchanged (an Enum's symbol, not its ordinal): the rows are the values
\* in the order of the calls.
C15_PrimitiveRoundTrip ==
    [][(/\ Appended
        /\ call'.s = schema
        /\ schema.k \in RoundTripKinds
        /\ Conforms(schema, call'.v))
       => /\ call'.res = "ok"
          /\ builder'.b.rows = Append(builder.b.rows, Slot(TRUE, call'.v.p))]_vars

\* C15 witness: two Enum values appended, rows in call order holding the
\* symbols.
C15_Witness ==
    /\ schema.k = "Enum"
    /\ nOk = 2
    /\ call.v.p = 1 /\ call.v.idx # call.v.p
    /\ builder.b.rows = <<Slot(TRUE, 2), Slot(TRUE, 1)>>

\* C16: the length of the top-level builder is the number of append_record
\* calls that returned Ok (so a call that returns an error never advances
\* it).
C16_LengthCountsOkCalls ==
    builder.res = "ok" => BLen(builder.b) = nOk

\* C16 witness: on a struct builder, one call returned Ok and the next one
\* an error.
C16_Witness ==
    /\ schema.k = "Record"
    /\ builder.res = "ok"
    /\ nCalls = 2 /\ nOk = 1
    /\ call.res = "err"
    /\ BLen(builder.b) = 1

\* C17: when append_record of a Record value returns an error, it is the
\* error of some field j: the children before j have one slot more, the
\* children from j on and the struct itself have not advanced.
C17_NoRollbackOnFieldError ==
    [][(/\ Appended
        /\ call'.s = schema
        /\ schema.k = "Record"
        /\ call'.v.k = "Record"
        /\ call'.res = "err")
       => \E j \in 1..Len(schema.sub) :
             /\ j <= Len(call'.v.sub)
             /\ append_record(builder.b.children[j], schema.sub[j],
                              call'.v.sub[j]).res = "err"
             /\ \A i \in 1..(j - 1) :
                   BLen(builder'.b.children[i]) = BLen(builder.b.children[i]) + 1
             /\ \A i \in j..Len(schema.sub) :
                   BLen(builder'.b.children[i]) = BLen(builder.b.children[i])
             /\ BLen(builder'.b) = BLen(builder.b)]_vars

\* C17 witness: the second field of a record failed; the first child is
\* longer than the struct and than the second child.
C17_Witness ==
    /\ schema.k = "Record"
    /\ call.v.k = "Record"
    /\ call.res = "err"
    /\ Len(builder.b.children) = 2
    /\ BLen(builder.b.children[1]) > BLen(builder.b)
    /\ BLen(builder.b.children[1]) > BLen(builder.b.children[2])

---------------------------------------------------------------------------
(* Vocabulary of the registry properties.                                  *)

\* The keys a key's schema references directly, as the server lists them.
Deps(srv, key) ==
    LET url == sr_schema_url(key[1], key[2]) IN
    IF url \in DOMAIN srv
    THEN {<<strip_suffix(srv[url].references[i].subject, "-value"),
            srv[url].references[i].version>> :
             i \in 1..Len(srv[url].references)}
    ELSE {}

\* The keys reachable from the keys of S through references, S included.
RECURSIVE Closure(_, _)
Closure(srv, S) ==
    LET N == S \cup UNION {Deps(srv, k) : k \in S} IN
    IF N = S THEN S ELSE Closure(srv, N)

Reach(srv, key) == Closure(srv, {key})

\* The reference graph below key has no cycle and the server has every key
\* of it.
AcyclicAndServed(srv, key) ==
    \A k \in Reach(srv, key) :
        /\ sr_schema_url(k[1], k[2]) \in DOMAIN srv
        /\ k \notin Closure(srv, Deps(srv, k))

\* The elements of a sequence.
Range(seq) == {seq[i] : i \in 1..Len(seq)}

\* The number of HTTP GETs issued for key so far.
Requests(reqs, key) == IF key \in DOMAIN reqs THEN reqs[key] ELSE 0

---------------------------------------------------------------------------
(* Properties of the registry.                                             *)

\* C18: every successful get(subject, version) hands back the Rc that the
\* first successful get of that key handed back, whatever calls were made
\* in between; a successful get issues the HTTP GET for its key at most
\* once and no later call issues it again.
C18_SameRcOneRequest ==
    /\ [](last.res = "ok"
            => /\ last.rc = handed[last.key]
               /\ Count(last.gets, last.key) <= 1)
    /\ [][\A k \in DOMAIN handed :
             Requests(requests', k) = Requests(requests, k)]_vars

\* C19: the first get on a new registry, over an acyclic reference graph
\* that the server answers in full, succeeds, issues exactly one HTTP GET
\* per reachable key and hands the parser a batch with each reachable key
\* exactly once.
C19_OneRequestPerReachableKey ==
    (/\ nGets = 1
     /\ AcyclicAndServed(server, last.key)
     /\ \A k \in Reach(server, last.key) : sr_schema_url(k[1], k[2]) # last.fail)
        => /\ last.res = "ok"
           /\ Range(last.gets) = Reach(server, last.key)
           /\ Len(last.gets) = Cardinality(Reach(server, last.key))
           /\ Range(last.schemas) = Reach(server, last.key)
           /\ Len(last.schemas) = Cardinality(Reach(server, last.key))

\* C19 witness: get(User, 2) on the diamond, Location reachable along two
\* paths and asked for once.
C19_Witness ==
    /\ server = DiamondServer
    /\ nGets = 1
    /\ last.key = <<"User", 2>>
    /\ last.res = "ok"
    /\ last.gets = <<<<"User", 2>>, <<"Address", 1>>, <<"Location", 3>>, <<"Order", 1>>>>
    /\ last.schemas = last.gets

\* C20: no schema that get returns or that sits in the expanded cache
\* contains a Ref node: every reference has been replaced by the record it
\* names.
C20_CacheHoldsExpandedSchemas ==
    /\ \A k \in DOMAIN cache : ~HasRef(cache[k].schema)
    /\ last.res = "ok" => ~HasRef(last.schema)

---------------------------------------------------------------------------
(* Properties of the translation of logical types.                         *)

\* DataType::Duration(unit)
Duration(unit) == [DT("Duration") EXCEPT !.unit = unit]

\* C26: convert_schema on a record with a field of the Duration logical
\* type succeeds and gives that field the type Duration(Millisecond).
C26_DurationFieldTranslated ==
    (/\ arrow.res # "none"
     /\ schema.k = "Record"
     /\ \E i \in 1..Len(schema.sub) : schema.sub[i].k = "Duration"
     /\ \A i \in 1..Len(schema.sub) :
           schema.sub[i].k = "Duration" \/ Translates(schema.sub[i]))
        => /\ arrow.res = "ok"
           /\ \A i \in 1..Len(schema.sub) :
                 schema.sub[i].k = "Duration"
                    => arrow.fields[i].dt = Duration("Millisecond")

---------------------------------------------------------------------------
(* Properties of the registry across calls.                                *)

\* The last step was a get call.
GetCalled == nGets' = nGets + 1

\* The last get missed the expanded cache and its walk ran to the end.
WalkedToEnd == last.res \in {"ok", "DeserializationFailed"} /\ Len(last.schemas) > 0

\* The string s ends with the string suffix.
EndsWith(s, suffix) ==
    /\ Len(s) >= Len(suffix)
    /\ \A i \in 1..Len(suffix) :
          SubSeq(s, Len(s) - Len(suffix) + i, Len(s) - Len(suffix) + i) = SubSeq(suffix, i, i)

\* C22: the keys the walk works with never carry the "-value" suffix,
\* whichever spelling a reference uses, and within one get each key is
\* fetched at most once and put into the batch at most once: a schema
\* referenced as "X-value" and as "X" is one key, one fetch, one entry.
C22_SuffixSpellingsShareKey ==
    /\ \A k \in Range(last.gets) \cup Range(last.schemas)
                \cup DOMAIN cache_raw \cup DOMAIN cache :
          ~EndsWith(k[1], "-value")
    /\ \A k \in Range(last.gets) : Count(last.gets, k) = 1
    /\ \A k \in Range(last.schemas) : Count(last.schemas, k) = 1

\* C22 witness: Location was referenced as "Location-value" by Address and
\* as "Location" by Order, and sits in the raw cache and the batch under
\* the one key (Location, 3).
C22_Witness ==
    /\ server = DiamondServer
    /\ last.res = "ok"
    /\ {<<"Address", 1>>, <<"Order", 1>>} \subseteq Range(last.schemas)
    /\ Count(last.schemas, <<"Location", 3>>) = 1
    /\ Count(last.gets, <<"Location", 3>>) = 1
    /\ <<"Location", 3>> \in DOMAIN cache_raw
    /\ <<"Location-value", 3>> \notin DOMAIN cache_raw

\* C27: whenever a get that missed the expanded cache has walked an
\* acyclic reference graph to the end, the batch handed to the parser holds
\* every key reachable from the requested key through references, whatever
\* the raw cache held before.
C27_BatchHoldsReachableSchemas ==
    (WalkedToEnd /\ AcyclicAndServed(server, last.key))
        => Reach(server, last.key) \subseteq Range(last.schemas)

\* C28: after a successful get every key of the walk is in the expanded
\* cache, entries are never removed, and a get for a key of the expanded
\* cache returns Ok without issuing an HTTP request.
C28_WalkedKeysAreCached ==
    /\ [](last.res = "ok" => Range(last.schemas) \subseteq DOMAIN cache)
    /\ [][GetCalled
            => /\ DOMAIN cache \subseteq DOMAIN cache'
               /\ last'.key \in DOMAIN cache
                    => /\ last'.res = "ok"
                       /\ last'.gets = <<>>
                       /\ requests' = requests]_vars

\* C28 witness: get(User, 2) succeeded, then get(Address, 1), a key of its
\* walk, returned Ok with no request of its own.
C28_Witness ==
    /\ nGets = 2
    /\ <<"User", 2>> \in DOMAIN handed
    /\ last.key = <<"Address", 1>>
    /\ last.res = "ok"
    /\ last.gets = <<>>
    /\ Requests(requests, <<"Address", 1>>) = 1

\* C29: the first get on a new registry, every request answered, returns
\* ResolutionFailed exactly when the walk meets a key that is still in
\* progress; and a get that returned ResolutionFailed returns
\* ResolutionFailed again when it is repeated.
C29_CycleErrorIsRepeatable ==
    /\ []((/\ nGets = 1
           /\ \A k \in Reach(server, last.key) :
                 /\ sr_schema_url(k[1], k[2]) \in DOMAIN server
                 /\ sr_schema_url(k[1], k[2]) # last.fail)
            => (last.res = "ResolutionFailed"
                    <=> ~AcyclicAndServed(server, last.key)))
    /\ [][(/\ GetCalled
           /\ last.res = "ResolutionFailed"
           /\ last'.key = last.key
           /\ last'.fail = last.fail)
          => last'.res = "ResolutionFailed"]_vars

\* C30: a get that returns an error leaves the expanded cache exactly as
\* it was.
C30_ErrorLeavesCacheUnchanged ==
    [][(GetCalled /\ last'.res # "ok") => cache' = cache]_vars

\* C30 witness: with schemas already in the expanded cache, a get failed in
\* the parser.
C30_Witness ==
    /\ last.res = "DeserializationFailed"
    /\ Len(last.schemas) > 1
    /\ last.key \notin DOMAIN cache
    /\ DOMAIN cache # {}

---------------------------------------------------------------------------
(* Properties of the expander.                                             *)

\* expand_schema has been called.
ExpandCalled == expansion.pass >= 1

\* The names of the Ref nodes of a schema, at any depth.
RECURSIVE Refs(_)
Refs(s) ==
    CASE s.k = "Ref" -> {s.name}
      [] s.k = "Record" -> UNION {Refs(s.fields[i].schema) : i \in 1..Len(s.fields)}
      [] s.k = "Map" -> Refs(s.types)
      [] s.k = "Array" -> Refs(s.items)
      [] s.k = "Union" -> UNION {Refs(s.schemas[i]) : i \in 1..Len(s.schemas)}
      [] OTHER -> {}

\* The names reachable from the names of S through the schemas the map
\* holds for them, S included.
RECURSIVE NameClosure(_, _)
NameClosure(schemas, S) ==
    LET N == S \cup UNION {Refs(schemas[n]) : n \in S \cap DOMAIN schemas} IN
    IF N = S THEN S ELSE NameClosure(schemas, N)

\* The names of the Ref nodes reachable from src: its own, and those of the
\* schemas of the names that resolve.
Reachable(src, schemas) == NameClosure(schemas, Refs(src))

\* The reachable names that are not keys of the map.
Unresolved(src, schemas) == Reachable(src, schemas) \ DOMAIN schemas

\* The name n lies on a cycle of references.
OnCycle(schemas, n) ==
    n \in DOMAIN schemas /\ n \in NameClosure(schemas, Refs(schemas[n]))

\* A cycle of references is reachable from src.
CycleReachable(src, schemas) ==
    \E n \in Reachable(src, schemas) : OnCycle(schemas, n)

\* The name a qualified name denotes: what follows its last dot, in the
\* namespace written before that dot, if any is.
QualifiedName(str) ==
    LET dots == {i \in 1..Len(str) : SubSeq(str, i, i) = "."}
        last_dot == IF dots = {} THEN 0 ELSE CHOOSE i \in dots : \A j \in dots : j <= i
    IN  Name(IF last_dot <= 1 THEN None ELSE Some(SubSeq(str, 1, last_dot - 1)),
             SubSeq(str, last_dot + 1, Len(str)))

\* C23: expand_schema applied to a schema without Ref nodes returns Ok with
\* a schema equal to its argument, whatever the name map holds (the empty
\* map included), and applied to its own output it returns that output
\* again.
C23_RefFreeExpandsToItself ==
    /\ []((ExpandCalled /\ Refs(expansion.src) = {})
            => expansion.out = Expanded(expansion.src))
    /\ [][(ExpandCalled /\ expansion'.pass = expansion.pass + 1
                /\ Refs(expansion.src) = {})
            => expansion'.out = expansion.out]_vars

\* C23 witness: the expander applied, with the empty map, to its own output
\* for a record with documentation, defaults, attributes and a union.
C23_Witness ==
    /\ expansion.pass = 2
    /\ expansion.schemas = EmptyMap
    /\ expansion.src = Documented
    /\ expansion.out.res = "ok"

\* C24 as stated: whenever a reachable Ref is not a key of the map,
\* expand_schema returns ResolutionFailed with the qualified name of such a
\* Ref; and an Ok result for an acyclic map has no Ref node.
C24_UnresolvedRefIsReported ==
    ExpandCalled =>
        /\ Unresolved(expansion.src, expansion.schemas) # {}
            => /\ expansion.out.res = "ResolutionFailed"
               /\ QualifiedName(expansion.out.msg)
                      \in Unresolved(expansion.src, expansion.schemas)
        /\ (expansion.out.res = "ok"
                /\ \A n \in DOMAIN expansion.schemas : ~OnCycle(expansion.schemas, n))
            => Refs(expansion.out.schema) = {}

\* C24 amended: whenever a reachable Ref is not a key of the map and no
\* cycle of references is reachable, expand_schema returns ResolutionFailed
\* with the qualified name of such a Ref; and an Ok result for an acyclic
\* map has no Ref node.
C24_UnresolvedRefIsReportedWithoutCycle ==
    ExpandCalled =>
        /\ (/\ Unresolved(expansion.src, expansion.schemas) # {}
            /\ ~CycleReachable(expansion.src, expansion.schemas))
            => /\ expansion.out.res = "ResolutionFailed"
               /\ QualifiedName(expansion.out.msg)
                      \in Unresolved(expansion.src, expansion.schemas)
        /\ (expansion.out.res = "ok"
                /\ \A n \in DOMAIN expansion.schemas : ~OnCycle(expansion.schemas, n))
            => Refs(expansion.out.schema) = {}

\* C24 witness: a Ref to ns.x.N met behind a Ref that resolves, reported by
\* its qualified name.
C24_Witness ==
    /\ ExpandCalled
    /\ NameA \in DOMAIN expansion.schemas
    /\ NameA \in Refs(expansion.src)
    /\ expansion.out = ResolutionFailed("ns.x.N")

\* C25 as stated: expand_schema returns if and only if no cycle of
\* references is reachable from its argument through the name map.
C25_ReturnsIffNoCycle ==
    ExpandCalled =>
        (expansion.out.res # "unbounded"
            <=> ~CycleReachable(expansion.src, expansion.schemas))

\* C25 amended: expand_schema returns whenever no cycle of references is
\* reachable from its argument, and never returns when one is reachable and
\* every reachable Ref is a key of the map.
C25_ReturnsWithoutCycle ==
    ExpandCalled =>
        /\ ~CycleReachable(expansion.src, expansion.schemas)
            => expansion.out.res # "unbounded"
        /\ (/\ CycleReachable(expansion.src, expansion.schemas)
            /\ Unresolved(expansion.src, expansion.schemas) = {})
            => expansion.out.res = "unbounded"

\* C25 witness: A holds Ref(B) and B holds Ref(A), and the expansion of
\* Ref(A) is without end.
C25_Witness ==
    /\ expansion.src = SchemaRef(NameA)
    /\ NameA \in DOMAIN expansion.schemas
    /\ NameB \in DOMAIN expansion.schemas
    /\ NameB \in Refs(expansion.schemas[NameA])
    /\ NameA \in Refs(expansion.schemas[NameB])
    /\ expansion.out.res = "unbounded"

---------------------------------------------------------------------------
(* Properties of get taken one resolve call at a time.                     *)

\* The references the server holds to key, under either spelling of the
\* subject.
InRefs(srv, key) ==
    {p \in UNION {{<<u, i>> : i \in 1..Len(srv[u].references)} : u \in DOMAIN srv} :
        /\ strip_suffix(srv[p[1]].references[p[2]].subject, "-value") = key[1]
        /\ srv[p[1]].references[p[2]].version = key[2]}

\* C21: every get call that is running comes to an end, whatever the
\* reference graph of the server, back edges and self-references included;
\* within one get, resolve is called for a key at most once more than
\* there are references to it, each key is fetched at most once, and no
\* key has two resolve calls running at once.
C21_GetTerminates ==
    /\ InGet ~> ~InGet
    /\ [](\A k \in Range(resolving.calls) :
            Count(resolving.calls, k) <= 1 + Cardinality(InRefs(server, k)))
    /\ [](\A k \in Range(resolving.gets) : Count(resolving.gets, k) = 1)
    /\ [](\A i, j \in 1..Len(frames) : frames[i].key = frames[j].key => i = j)

\* C21 witness: on the server where User references Address and Address
\* references User, get("User", 2) has come back to User and ended.
C21_Witness ==
    /\ server = CycleServer
    /\ resolving.key = <<"User", 2>>
    /\ resolving.calls = <<<<"User", 2>>, <<"Address", 1>>, <<"User", 2>>>>
    /\ ~InGet

===========================================================================
